---- MODULE Spec2Model ----
(***************************************************************************)
(* Hotplate simulator (src/main.cpp): Jacobi relaxation of a 10 x 10 plate *)
(* to steady state, CSV export, then three relaxation steps on a plate     *)
(* imported from Inputplate.txt.                                           *)
(*                                                                         *)
(* Temperatures.  A double is represented by an integer number of          *)
(* 2^-20 degree units (TempUnit units per degree).  Sums and differences   *)
(* of such values are exact; the division by 4 of UpdateTemps is the       *)
(* floor of the exact quotient, which is the exact quotient whenever the   *)
(* sum is a multiple of 4 units (all inputs of the unit specification      *)
(* SpecUnit are) and otherwise lies less than one unit below it.  The      *)
(* machine value differs from the exact quotient by a few 2^-53 relative   *)
(* roundings (below 10^-7 unit for temperatures up to 2000 degrees), so    *)
(* after k relaxation steps from exactly represented values a model cell   *)
(* is within k units of the machine cell.  The one place where a           *)
(* temperature decides control flow in main, the convergence check of the  *)
(* steady-state loop, takes every outcome that this distance allows        *)
(* (SteadyCheckOutcomes).                                                  *)
(***************************************************************************)
EXTENDS Integers, Sequences, FiniteSets, TLC

VARIABLES
  pc,                     \* position in main, or in the unit harness
  oldHeatDist,            \* main.cpp:26
  newHeatDist,            \* main.cpp:27
  hasReachedSteadyState,  \* main.cpp:41
  iterationCount,         \* main.cpp:42
  i,                      \* loop variable of main.cpp:64
  exportStatus,           \* main.cpp:55
  exitStatus,             \* value returned by main; -1 while running
  stdout,                 \* what main has written to cout
  csvFile,                \* what this run has written to Hotplate.csv
  inputTxt,               \* Inputplate.txt as InitPlateFromTxt found it
  callLog,                \* history: the functions main has called, in order
  entryOld,               \* unit harness: first array argument at call entry
  entryNew,               \* unit harness: second array argument at call entry
  epsilonVal,             \* unit harness: argument epsilonVal of StateChanged
  retVal                  \* unit harness: value returned by StateChanged

vars == <<pc, oldHeatDist, newHeatDist, hasReachedSteadyState, iterationCount,
          i, exportStatus, exitStatus, stdout, csvFile, inputTxt, callLog,
          entryOld, entryNew, epsilonVal, retVal>>

mainVars == <<hasReachedSteadyState, iterationCount, i, exportStatus,
              exitStatus, stdout, csvFile, inputTxt, callLog>>

unitVars == <<entryOld, entryNew, epsilonVal, retVal>>

----------------------------------------------------------------------------
(* Program constants, main.cpp:9-15 *)

PLATE_SIZE == 10

\* units per degree
TempUnit == 2^20

INITIAL_TEMP == 100 * TempUnit

\* 0.1 degree is 104857.6 units: for a whole number d of units,
\* d > 104857.6 exactly when d > 104857.
HEAT_EPSILON == TempUnit \div 10

OUTPUT_PRECISION == 3

\* mutant: the limit with its last five digits dropped
ITERATION_LIMIT_low == 999999 \div 100000

ITERATION_LIMIT == 999999

DESIRED_ITERATIONS == 3

Idx == 0 .. (PLATE_SIZE - 1)

Interior == 1 .. (PLATE_SIZE - 2)

IsBorder(r, c) == r = 0 \/ r = PLATE_SIZE - 1 \/ c = 0 \/ c = PLATE_SIZE - 1

Abs(x) == IF x < 0 THEN -x ELSE x

----------------------------------------------------------------------------
(* InitPlate, main.cpp:72-86 *)

\* mutant: the corner test of line 76 is missing
InitialValue_corners(r, c) ==
  IF r = 0 \/ r = PLATE_SIZE - 1 THEN INITIAL_TEMP ELSE 0

\* the value lines 75-83 assign to cell (r, c)
InitialValue(r, c) ==
  IF r = 0 \/ r = PLATE_SIZE - 1
    THEN IF c > 0 /\ c < PLATE_SIZE - 1 THEN INITIAL_TEMP ELSE 0
    ELSE 0

\* the inner loop (line 74) on row r, from column c on
RECURSIVE InitPlateRow(_, _, _)
InitPlateRow(row, r, c) ==
  IF c >= PLATE_SIZE THEN row
  ELSE InitPlateRow([row EXCEPT ![c] = InitialValue(r, c)], r, c + 1)

\* the outer loop (line 73), from row r on
RECURSIVE InitPlateLoop(_, _)
InitPlateLoop(passedHeatDist, r) ==
  IF r >= PLATE_SIZE THEN passedHeatDist
  ELSE InitPlateLoop(
         [passedHeatDist EXCEPT ![r] = InitPlateRow(@, r, 0)],
         r + 1)

InitPlate(passedHeatDist) == InitPlateLoop(passedHeatDist, 0)

----------------------------------------------------------------------------
(* StateChanged, main.cpp:88-98 *)

\* mutant: fabs is missing
Exceeds_signed(oldHeatArray, newHeatArray, r, c, eps) ==
  newHeatArray[r][c] - oldHeatArray[r][c] > eps

\* the test of line 92
Exceeds(oldHeatArray, newHeatArray, r, c, eps) ==
  Abs(newHeatArray[r][c] - oldHeatArray[r][c]) > eps

\* the inner loop (line 91) on row r, from column c on: TRUE when it returns
\* true, FALSE when it runs to its end
RECURSIVE StateChangedRow(_, _, _, _, _)
StateChangedRow(oldHeatArray, newHeatArray, eps, r, c) ==
  IF c >= PLATE_SIZE - 1 THEN FALSE
  ELSE IF Exceeds(oldHeatArray, newHeatArray, r, c, eps) THEN TRUE
  ELSE StateChangedRow(oldHeatArray, newHeatArray, eps, r, c + 1)

\* the outer loop (line 90), from row r on
RECURSIVE StateChangedLoop(_, _, _, _)
StateChangedLoop(oldHeatArray, newHeatArray, eps, r) ==
  IF r >= PLATE_SIZE - 1 THEN FALSE
  ELSE IF StateChangedRow(oldHeatArray, newHeatArray, eps, r, 1) THEN TRUE
  ELSE StateChangedLoop(oldHeatArray, newHeatArray, eps, r + 1)

StateChanged(oldHeatArray, newHeatArray, eps) ==
  StateChangedLoop(oldHeatArray, newHeatArray, eps, 1)

----------------------------------------------------------------------------
(* UpdateTemps, main.cpp:100-110 *)

\* mutant: the bottom neighbour is read from the cell itself
NewTemp_self(inputHeatDist, r, c) ==
  (inputHeatDist[r - 1][c] + inputHeatDist[r][c - 1]
     + inputHeatDist[r][c + 1] + inputHeatDist[r][c]) \div 4

\* lines 103-107
NewTemp(inputHeatDist, r, c) ==
  LET topNeighbor == inputHeatDist[r - 1][c]
      leftNeighbor == inputHeatDist[r][c - 1]
      rightNeighbor == inputHeatDist[r][c + 1]
      bottomNeighbor == inputHeatDist[r + 1][c]
  IN (topNeighbor + leftNeighbor + rightNeighbor + bottomNeighbor) \div 4

\* the inner loop (line 102) on row r of the output, from column c on
RECURSIVE UpdateTempsRow(_, _, _, _)
UpdateTempsRow(inputHeatDist, outputRow, r, c) ==
  IF c >= PLATE_SIZE - 1 THEN outputRow
  ELSE UpdateTempsRow(inputHeatDist,
         [outputRow EXCEPT ![c] = NewTemp(inputHeatDist, r, c)], r, c + 1)

\* the outer loop (line 101), from row r on
RECURSIVE UpdateTempsLoop(_, _, _)
UpdateTempsLoop(inputHeatDist, outputHeatDist, r) ==
  IF r >= PLATE_SIZE - 1 THEN outputHeatDist
  ELSE UpdateTempsLoop(inputHeatDist,
         [outputHeatDist EXCEPT
            ![r] = UpdateTempsRow(inputHeatDist, @, r, 1)],
         r + 1)

\* mutant: the output starts as a copy of the input
UpdateTemps_fromInput(inputHeatDist, outputHeatDist) ==
  UpdateTempsLoop(inputHeatDist, inputHeatDist, 1)

UpdateTemps(inputHeatDist, outputHeatDist) ==
  UpdateTempsLoop(inputHeatDist, outputHeatDist, 1)

----------------------------------------------------------------------------
(* TransferValues, main.cpp:112-118 *)

\* the inner loop (line 114) on row r of the destination, from column c on
RECURSIVE TransferValuesRow(_, _, _, _)
TransferValuesRow(sourceArray, destRow, r, c) ==
  IF c >= PLATE_SIZE THEN destRow
  ELSE TransferValuesRow(sourceArray,
         [destRow EXCEPT ![c] = sourceArray[r][c]], r, c + 1)

\* the outer loop (line 113), from row r on
RECURSIVE TransferValuesLoop(_, _, _)
TransferValuesLoop(sourceArray, destArray, r) ==
  IF r >= PLATE_SIZE THEN destArray
  ELSE TransferValuesLoop(sourceArray,
         [destArray EXCEPT
            ![r] = TransferValuesRow(sourceArray, @, r, 0)],
         r + 1)

TransferValues(sourceArray, destArray) ==
  TransferValuesLoop(sourceArray, destArray, 0)

----------------------------------------------------------------------------
(* OutputPlate, main.cpp:120-131 *)

\* n / d rounded to the nearest integer, ties to even (n >= 0, d > 0)
RoundHalfEven(n, d) ==
  LET q == n \div d
      rest == n % d
  IN IF 2 * rest > d \/ (2 * rest = d /\ q % 2 = 1) THEN q + 1 ELSE q

\* << fixed << setprecision(OUTPUT_PRECISION): the field's value, as a whole
\* number of 10^-OUTPUT_PRECISION degrees
FixedField(t) ==
  LET scale == 10^OUTPUT_PRECISION
      a == Abs(t)
      m == (a \div TempUnit) * scale + RoundHalfEven((a % TempUnit) * scale, TempUnit)
  IN IF t < 0 THEN -m ELSE m

\* the rows written to the stream, each the fields of one line
OutputPlate(passedHeatDist) ==
  [r \in 1 .. PLATE_SIZE |->
     [c \in 1 .. PLATE_SIZE |-> FixedField(passedHeatDist[r - 1][c - 1])]]

----------------------------------------------------------------------------
(* ExportPlateToCSV, main.cpp:133-146 *)

\* mutant: the failed open is reported on cout but 0 is returned
ExportPlateToCSV_silent(passedHeatDist, canOpen) ==
  IF ~canOpen
    THEN [status |-> 0, csv |-> << >>, cout |-> <<"Could not open file Hotplate.csv">>]
    ELSE [status |-> 0, csv |-> OutputPlate(passedHeatDist), cout |-> << >>]

\* canOpen: whether csvFileStream.is_open() after line 135.  The result is
\* the returned status, the rows written to the file and the lines written
\* to cout.
ExportPlateToCSV(passedHeatDist, canOpen) ==
  IF ~canOpen
    THEN [status |-> 1, csv |-> << >>, cout |-> <<"Could not open file Hotplate.csv">>]
    ELSE [status |-> 0, csv |-> OutputPlate(passedHeatDist), cout |-> << >>]

----------------------------------------------------------------------------
(* InitPlateFromTxt, main.cpp:148-164 *)

\* Inputplate.txt is absent, or a sequence of whitespace-separated decimal
\* numerals, each held as its value in 10^-3 degree.
NoFile == [exists |-> FALSE, tokens |-> << >>]

TextFile(tokens) == [exists |-> TRUE, tokens |-> tokens]

\* operator>> on a numeral: the nearest representable temperature
ParseField(m) ==
  LET a == Abs(m)
      t == (a \div 1000) * TempUnit + RoundHalfEven((a % 1000) * TempUnit, 1000)
  IN IF m < 0 THEN -t ELSE t

\* Lines 157-161.  Once the numerals are used up the stream has failed and
\* every later >> leaves its cell as it was.
RECURSIVE InitPlateFromTxtRow(_, _, _, _)
InitPlateFromTxtRow(row, tokens, r, c) ==
  IF c >= PLATE_SIZE THEN row
  ELSE LET k == r * PLATE_SIZE + c + 1
       IN InitPlateFromTxtRow(
            IF k <= Len(tokens)
              THEN [row EXCEPT ![c] = ParseField(tokens[k])]
              ELSE row,
            tokens, r, c + 1)

RECURSIVE InitPlateFromTxtLoop(_, _, _)
InitPlateFromTxtLoop(passedHeatDist, tokens, r) ==
  IF r >= PLATE_SIZE THEN passedHeatDist
  ELSE InitPlateFromTxtLoop(
         [passedHeatDist EXCEPT
            ![r] = InitPlateFromTxtRow(@, tokens, r, 0)],
         tokens, r + 1)

\* mutant: a plate that cannot be loaded is cleared
InitPlateFromTxt_clear(passedHeatDist, file) ==
  IF ~file.exists
    THEN [status |-> 1,
          plate |-> [r \in Idx |-> [c \in Idx |-> 0]],
          cout |-> <<"Could not open file numFile.txt.">>]
    ELSE [status |-> 0,
          plate |-> InitPlateFromTxtLoop(passedHeatDist, file.tokens, 0),
          cout |-> << >>]

InitPlateFromTxt(passedHeatDist, file) ==
  IF ~file.exists
    THEN [status |-> 1,
          plate |-> passedHeatDist,
          cout |-> <<"Could not open file numFile.txt.">>]
    ELSE [status |-> 0,
          plate |-> InitPlateFromTxtLoop(passedHeatDist, file.tokens, 0),
          cout |-> << >>]

----------------------------------------------------------------------------
(* Inputs drawn from bounded sets *)

\* uninitialised stack arrays hold any values: the garbage values tried
MaxGarbage == 1

MaxImportStep == 2

ShortLen == 55

Uniform(v) == [r \in Idx |-> [c \in Idx |-> v]]

GarbageGrids == { Uniform(g * 12345 - 7) : g \in 0 .. MaxGarbage }

\* numerals, in 10^-3 degree, of the plates tried as Inputplate.txt
ImportTemps == { 50000 * k : k \in 0 .. MaxImportStep }

\* the numerals of a plate, row by row: top and bottom rows without their
\* corners hold top, the rest of the border side, the interior inner
PlateTokens(top, side, inner) ==
  [k \in 1 .. PLATE_SIZE * PLATE_SIZE |->
     LET r == (k - 1) \div PLATE_SIZE
         c == (k - 1) % PLATE_SIZE
     IN IF (r = 0 \/ r = PLATE_SIZE - 1) /\ c > 0 /\ c < PLATE_SIZE - 1 THEN top
        ELSE IF IsBorder(r, c) THEN side
        ELSE inner]

InputFiles ==
  {NoFile}
  \cup { TextFile(PlateTokens(t, s, n)) : t \in ImportTemps, s \in ImportTemps, n \in ImportTemps }
  \cup { TextFile(SubSeq(PlateTokens(t, t, 0), 1, ShortLen)) : t \in ImportTemps }
  \cup { TextFile(<< >>) }

----------------------------------------------------------------------------
(* main, main.cpp:25-70 *)

\* Line 45 at iterationCount = k: oldHeatDist is k relaxation steps and
\* newHeatDist k + 1 steps away from the exact initial plate, so a model
\* difference is within 2k + 1 units of the machine's.  The check is TRUE when
\* it is for the threshold raised by that much, FALSE when it is for the
\* threshold lowered by that much, and either in between.
SteadyCheckOutcomes(oldHeatArray, newHeatArray, k) ==
  { StateChanged(oldHeatArray, newHeatArray, HEAT_EPSILON + (2 * k + 1)),
    StateChanged(oldHeatArray, newHeatArray, HEAT_EPSILON - (2 * k + 1)) }

\* mutant: the negation of the steady-state flag is missing
LoopContinues_noNeg(steady, count) == steady /\ count < ITERATION_LIMIT

\* the while condition of lines 48-49
LoopContinues(steady, count) == ~steady /\ count < ITERATION_LIMIT

\* mutant: <= for <
FixedLoopContinues_le(n) == n <= DESIRED_ITERATIONS

\* the for condition of line 64
FixedLoopContinues(n) == n < DESIRED_ITERATIONS

\* mutant: the test of line 57 is inverted
ExportFailed_inv(status) == status = 0

\* the test of line 57
ExportFailed(status) == status /= 0

Printed(text, plate) == [text |-> text, plate |-> plate]

NoPlate == << >>

Called(name) == callLog' = Append(callLog, name)

Init ==
  /\ pc = "init_old"
  /\ oldHeatDist \in GarbageGrids
  /\ newHeatDist \in GarbageGrids
  /\ hasReachedSteadyState = FALSE
  /\ iterationCount = 0
  /\ i = 0
  /\ exportStatus = 0
  /\ exitStatus = -1
  /\ stdout = << >>
  /\ csvFile = << >>
  /\ inputTxt = NoFile
  /\ callLog = << >>
  /\ entryOld = NoPlate
  /\ entryNew = NoPlate
  /\ epsilonVal = 0
  /\ retVal = FALSE

\* line 28
MainInitOld ==
  /\ pc = "init_old"
  /\ oldHeatDist' = InitPlate(oldHeatDist)
  /\ Called("InitPlate")
  /\ pc' = "init_new"
  /\ UNCHANGED <<newHeatDist, hasReachedSteadyState, iterationCount, i,
                 exportStatus, exitStatus, stdout, csvFile, inputTxt, unitVars>>

\* line 29
MainInitNew ==
  /\ pc = "init_new"
  /\ newHeatDist' = InitPlate(newHeatDist)
  /\ Called("InitPlate")
  /\ pc' = "print_initial"
  /\ UNCHANGED <<oldHeatDist, hasReachedSteadyState, iterationCount, i,
                 exportStatus, exitStatus, stdout, csvFile, inputTxt, unitVars>>

\* lines 31-33
MainPrintInitial ==
  /\ pc = "print_initial"
  /\ stdout' = stdout \o <<Printed("Hotplate simulator", NoPlate),
                           Printed("Printing the initial plate values...",
                                   OutputPlate(oldHeatDist))>>
  /\ Called("OutputPlate")
  /\ pc' = "first_update"
  /\ UNCHANGED <<oldHeatDist, newHeatDist, hasReachedSteadyState, iterationCount,
                 i, exportStatus, exitStatus, csvFile, inputTxt, unitVars>>

\* lines 35-37
MainFirstUpdate ==
  /\ pc = "first_update"
  /\ newHeatDist' = UpdateTemps(oldHeatDist, newHeatDist)
  /\ stdout' = Append(stdout, Printed("Printing plate after one iteration...",
                                      OutputPlate(newHeatDist')))
  /\ callLog' = callLog \o <<"UpdateTemps", "OutputPlate">>
  /\ pc' = "first_transfer"
  /\ UNCHANGED <<oldHeatDist, hasReachedSteadyState, iterationCount, i,
                 exportStatus, exitStatus, csvFile, inputTxt, unitVars>>

\* lines 39-42
MainFirstTransfer ==
  /\ pc = "first_transfer"
  /\ oldHeatDist' = TransferValues(newHeatDist, oldHeatDist)
  /\ hasReachedSteadyState' = FALSE
  /\ iterationCount' = 1
  /\ Called("TransferValues")
  /\ pc' = "loop_update"
  /\ UNCHANGED <<newHeatDist, i, exportStatus, exitStatus, stdout, csvFile,
                 inputTxt, unitVars>>

\* line 44
LoopUpdate ==
  /\ pc = "loop_update"
  /\ newHeatDist' = UpdateTemps(oldHeatDist, newHeatDist)
  /\ Called("UpdateTemps")
  /\ pc' = "loop_check"
  /\ UNCHANGED <<oldHeatDist, hasReachedSteadyState, iterationCount, i,
                 exportStatus, exitStatus, stdout, csvFile, inputTxt, unitVars>>

\* line 45
LoopCheck ==
  /\ pc = "loop_check"
  /\ \E changed \in SteadyCheckOutcomes(oldHeatDist, newHeatDist, iterationCount) :
       /\ hasReachedSteadyState' = ~changed
       /\ Called(IF changed THEN "StateChanged=true" ELSE "StateChanged=false")
  /\ pc' = "loop_transfer"
  /\ UNCHANGED <<oldHeatDist, newHeatDist, iterationCount, i, exportStatus,
                 exitStatus, stdout, csvFile, inputTxt, unitVars>>

\* line 46
LoopTransfer ==
  /\ pc = "loop_transfer"
  /\ oldHeatDist' = TransferValues(newHeatDist, oldHeatDist)
  /\ Called("TransferValues")
  /\ pc' = "loop_increment"
  /\ UNCHANGED <<newHeatDist, hasReachedSteadyState, iterationCount, i,
                 exportStatus, exitStatus, stdout, csvFile, inputTxt, unitVars>>

\* line 47
LoopIncrement ==
  /\ pc = "loop_increment"
  /\ iterationCount' = iterationCount + 1
  /\ pc' = "loop_test"
  /\ UNCHANGED <<oldHeatDist, newHeatDist, hasReachedSteadyState, i,
                 exportStatus, exitStatus, stdout, csvFile, inputTxt, callLog,
                 unitVars>>

\* lines 48-49
LoopTest ==
  /\ pc = "loop_test"
  /\ pc' = IF LoopContinues(hasReachedSteadyState, iterationCount)
             THEN "loop_update" ELSE "print_final"
  /\ UNCHANGED <<oldHeatDist, newHeatDist, mainVars, unitVars>>

\* lines 51-52
MainPrintFinal ==
  /\ pc = "print_final"
  /\ stdout' = Append(stdout, Printed("Printing final plate...",
                                      OutputPlate(newHeatDist)))
  /\ Called("OutputPlate")
  /\ pc' = "export"
  /\ UNCHANGED <<oldHeatDist, newHeatDist, hasReachedSteadyState, iterationCount,
                 i, exportStatus, exitStatus, csvFile, inputTxt, unitVars>>

\* lines 54-55
MainExport ==
  /\ pc = "export"
  /\ \E canOpen \in BOOLEAN :
       LET res == ExportPlateToCSV(newHeatDist, canOpen)
       IN /\ exportStatus' = res.status
          /\ csvFile' = res.csv
          /\ stdout' = stdout
               \o <<Printed("Writing final plate to \"Hotplate.csv\"...", NoPlate)>>
               \o [k \in 1 .. Len(res.cout) |-> Printed(res.cout[k], NoPlate)]
  /\ Called("ExportPlateToCSV")
  /\ pc' = "export_test"
  /\ UNCHANGED <<oldHeatDist, newHeatDist, hasReachedSteadyState, iterationCount,
                 i, exitStatus, inputTxt, unitVars>>

\* lines 57-60
MainExportTest ==
  /\ pc = "export_test"
  /\ IF ExportFailed(exportStatus)
       THEN /\ stdout' = Append(stdout, Printed("Error occurred when writing to CSV", NoPlate))
            /\ exitStatus' = 1
            /\ pc' = "done"
       ELSE /\ pc' = "import"
            /\ UNCHANGED <<stdout, exitStatus>>
  /\ UNCHANGED <<oldHeatDist, newHeatDist, hasReachedSteadyState, iterationCount,
                 i, exportStatus, csvFile, inputTxt, callLog, unitVars>>

\* lines 62-64 (int i = 0)
MainImport ==
  /\ pc = "import"
  /\ \E file \in InputFiles :
       LET res == InitPlateFromTxt(oldHeatDist, file)
       IN /\ inputTxt' = file
          /\ oldHeatDist' = res.plate
          /\ stdout' = stdout
               \o [k \in 1 .. Len(res.cout) |-> Printed(res.cout[k], NoPlate)]
               \o <<Printed("Printing input plate after 3 updates...", NoPlate)>>
          /\ Called(IF res.status = 0 THEN "InitPlateFromTxt=0" ELSE "InitPlateFromTxt=1")
  /\ i' = 0
  /\ pc' = "fixed_test"
  /\ UNCHANGED <<newHeatDist, hasReachedSteadyState, iterationCount, exportStatus,
                 exitStatus, csvFile, unitVars>>

\* line 64, the condition
FixedTest ==
  /\ pc = "fixed_test"
  /\ pc' = IF FixedLoopContinues(i) THEN "fixed_update" ELSE "print_result"
  /\ UNCHANGED <<oldHeatDist, newHeatDist, mainVars, unitVars>>

\* line 65
FixedUpdate ==
  /\ pc = "fixed_update"
  /\ newHeatDist' = UpdateTemps(oldHeatDist, newHeatDist)
  /\ Called("UpdateTemps")
  /\ pc' = "fixed_transfer"
  /\ UNCHANGED <<oldHeatDist, hasReachedSteadyState, iterationCount, i,
                 exportStatus, exitStatus, stdout, csvFile, inputTxt, unitVars>>

\* line 66, and i++ of line 64
FixedTransfer ==
  /\ pc = "fixed_transfer"
  /\ oldHeatDist' = TransferValues(newHeatDist, oldHeatDist)
  /\ i' = i + 1
  /\ Called("TransferValues")
  /\ pc' = "fixed_test"
  /\ UNCHANGED <<newHeatDist, hasReachedSteadyState, iterationCount,
                 exportStatus, exitStatus, stdout, csvFile, inputTxt, unitVars>>

\* lines 68-69
MainPrintResult ==
  /\ pc = "print_result"
  /\ stdout' = Append(stdout, Printed("", OutputPlate(oldHeatDist)))
  /\ Called("OutputPlate")
  /\ exitStatus' = 0
  /\ pc' = "done"
  /\ UNCHANGED <<oldHeatDist, newHeatDist, hasReachedSteadyState, iterationCount,
                 i, exportStatus, csvFile, inputTxt, unitVars>>

Next ==
  \/ MainInitOld
  \/ MainInitNew
  \/ MainPrintInitial
  \/ MainFirstUpdate
  \/ MainFirstTransfer
  \/ LoopUpdate
  \/ LoopCheck
  \/ LoopTransfer
  \/ LoopIncrement
  \/ LoopTest
  \/ MainPrintFinal
  \/ MainExport
  \/ MainExportTest
  \/ MainImport
  \/ FixedTest
  \/ FixedUpdate
  \/ FixedTransfer
  \/ MainPrintResult

Spec == Init /\ [][Next]_vars

\* main is one thread that runs to its return
FairSpec == Spec /\ WF_vars(Next)

----------------------------------------------------------------------------
(* Unit specification: InitPlate, UpdateTemps and StateChanged, each       *)
(* applied once to arguments drawn from bounded sets                       *)

MaxCoef == 2

MaxDelta == 5

\* a plate whose neighbouring cells differ; every value is a multiple of
\* 4 units, so that the quotient of NewTemp is exact
SampleGrid(p, q) ==
  [r \in Idx |-> [c \in Idx |-> 4 * ((((p + 1) * r + (q + 2) * c + p * q) % 7) - 3)]]

SampleGrids == { SampleGrid(p, q) : p \in 0 .. MaxCoef, q \in 0 .. MaxCoef }

\* a corner, two border cells, the first and last interior cells and a cell
\* in the middle
ProbeCells == { <<0, 0>>, <<0, 5>>, <<4, PLATE_SIZE - 1>>, <<1, 1>>,
                <<PLATE_SIZE - 2, PLATE_SIZE - 2>>, <<5, 4>> }

Deltas == { d \in (0 - MaxDelta) .. MaxDelta : Abs(d) >= MaxDelta - 1 \/ d = 0 }

Bump(grid, cell, d) == [grid EXCEPT ![cell[1]][cell[2]] = @ + d]

SecondGrids(first) ==
  { Bump(first, cell, d) : cell \in ProbeCells, d \in Deltas }
  \cup { Bump(Bump(first, <<0, 0>>, MaxDelta), <<5, 4>>, d) : d \in Deltas }
  \cup { SampleGrid(1, 0), InitPlate(first) }

EpsilonSamples == { 0, MaxDelta - 1, MaxDelta, 2 * MaxDelta }

InitUnit ==
  /\ pc = "unit"
  /\ oldHeatDist \in SampleGrids \cup GarbageGrids
  /\ newHeatDist \in SecondGrids(oldHeatDist)
  /\ epsilonVal \in EpsilonSamples
  /\ entryOld = oldHeatDist
  /\ entryNew = newHeatDist
  /\ retVal = FALSE
  /\ hasReachedSteadyState = FALSE
  /\ iterationCount = 0
  /\ i = 0
  /\ exportStatus = 0
  /\ exitStatus = -1
  /\ stdout = << >>
  /\ csvFile = << >>
  /\ inputTxt = NoFile
  /\ callLog = << >>

\* InitPlate(newHeatDist)
UnitInitPlate ==
  /\ pc = "unit"
  /\ newHeatDist' = InitPlate(newHeatDist)
  /\ pc' = "InitPlate"
  /\ UNCHANGED <<oldHeatDist, mainVars, unitVars>>

\* UpdateTemps(oldHeatDist, newHeatDist)
UnitUpdateTemps ==
  /\ pc = "unit"
  /\ newHeatDist' = UpdateTemps(oldHeatDist, newHeatDist)
  /\ pc' = "UpdateTemps"
  /\ UNCHANGED <<oldHeatDist, mainVars, unitVars>>

\* StateChanged(oldHeatDist, newHeatDist, epsilonVal)
UnitStateChanged ==
  /\ pc = "unit"
  /\ retVal' = StateChanged(oldHeatDist, newHeatDist, epsilonVal)
  /\ pc' = "StateChanged"
  /\ UNCHANGED <<oldHeatDist, newHeatDist, mainVars, entryOld, entryNew, epsilonVal>>

NextUnit ==
  \/ UnitInitPlate
  \/ UnitUpdateTemps
  \/ UnitStateChanged

SpecUnit == InitUnit /\ [][NextUnit]_vars

----------------------------------------------------------------------------
(* Properties of the unit specification SpecUnit *)

\* C2: after UpdateTemps(input, output) every interior cell of the output is
\* the arithmetic mean of the four neighbours the cell has in the input as it
\* was at entry.
C2_UpdateTempsAveragesInput ==
  pc = "UpdateTemps" =>
    \A r \in Interior, c \in Interior :
      4 * newHeatDist[r][c] =
        entryOld[r - 1][c] + entryOld[r][c - 1] + entryOld[r][c + 1] + entryOld[r + 1][c]

\* UpdateTemps has rewritten cells (1,1) and (1,2); the new (1,1) differs from
\* the input's, so a mean taken over the output would differ at (1,2)
C2_Witness ==
  /\ pc = "UpdateTemps"
  /\ newHeatDist[1][1] /= entryNew[1][1]
  /\ newHeatDist[1][1] /= entryOld[1][1]
  /\ newHeatDist[1][2] /= entryNew[1][2]
  /\ entryOld[0][1] /= entryOld[2][1]

\* C3: UpdateTemps leaves every border cell of the output as it was at entry,
\* and leaves the input as it was.
C3_UpdateTempsFrame ==
  pc = "UpdateTemps" =>
    /\ \A r \in Idx, c \in Idx :
         IsBorder(r, c) => newHeatDist[r][c] = entryNew[r][c]
    /\ oldHeatDist = entryOld

\* UpdateTemps has changed the output, whose border differs from the input's
C3_Witness ==
  /\ pc = "UpdateTemps"
  /\ newHeatDist /= entryNew
  /\ \E r \in Idx, c \in Idx : IsBorder(r, c) /\ entryNew[r][c] /= entryOld[r][c]

\* C4: StateChanged returns true exactly when some interior cell differs
\* between the two plates by more than epsilon in absolute value; in
\* particular it returns false for identical plates.
C4_StateChangedIffInteriorDiffers ==
  pc = "StateChanged" =>
    /\ retVal <=> \E r \in Interior, c \in Interior :
                    Abs(newHeatDist[r][c] - oldHeatDist[r][c]) > epsilonVal
    /\ oldHeatDist = newHeatDist => ~retVal

\* StateChanged returned false for plates that differ in a border cell by
\* more than epsilon and in an interior cell by exactly epsilon
C4_Witness ==
  /\ pc = "StateChanged"
  /\ ~retVal
  /\ epsilonVal > 0
  /\ \E r \in Idx, c \in Idx :
       IsBorder(r, c) /\ Abs(newHeatDist[r][c] - oldHeatDist[r][c]) > epsilonVal
  /\ \E r \in Interior, c \in Interior :
       Abs(newHeatDist[r][c] - oldHeatDist[r][c]) = epsilonVal

\* C9: after InitPlate a cell holds INITIAL_TEMP exactly when it lies on the
\* top or bottom row and is not a corner; every other cell holds 0.
C9_InitPlatePattern ==
  pc = "InitPlate" =>
    \A r \in Idx, c \in Idx :
      LET hot == (r = 0 \/ r = PLATE_SIZE - 1) /\ 0 < c /\ c < PLATE_SIZE - 1
      IN /\ newHeatDist[r][c] = INITIAL_TEMP <=> hot
         /\ ~hot => newHeatDist[r][c] = 0

\* InitPlate ran on a plate with non-zero corners, side border and interior
C9_Witness ==
  /\ pc = "InitPlate"
  /\ entryNew[0][0] /= 0
  /\ entryNew[PLATE_SIZE - 1][PLATE_SIZE - 1] /= 0
  /\ entryNew[4][0] /= 0
  /\ entryNew[4][4] /= 0
  /\ entryNew[0][1] /= INITIAL_TEMP

----------------------------------------------------------------------------
(* Properties of main, specifications Spec and FairSpec *)

Has(name) == \E k \in 1 .. Len(callLog) : callLog[k] = name

Imported == Has("InitPlateFromTxt=0") \/ Has("InitPlateFromTxt=1")

\* the calls main has made since InitPlateFromTxt returned
SinceImport ==
  LET k == CHOOSE n \in 1 .. Len(callLog) :
             callLog[n] \in {"InitPlateFromTxt=0", "InitPlateFromTxt=1"}
  IN SubSeq(callLog, k + 1, Len(callLog))

IsCheck(name) == name \in {"StateChanged=true", "StateChanged=false"}

AfterLoop ==
  pc \in {"print_final", "export", "export_test", "import", "fixed_test",
          "fixed_update", "fixed_transfer", "print_result", "done"}

OpenFailed == \E k \in 1 .. Len(stdout) : stdout[k].text = "Could not open file Hotplate.csv"

ThreeSteps ==
  <<"UpdateTemps", "TransferValues", "UpdateTemps", "TransferValues",
    "UpdateTemps", "TransferValues">>

\* C1: main returns; the steady-state loop goes round again exactly when the
\* last check returned true and iterationCount is below ITERATION_LIMIT, and
\* leaves otherwise; no relaxation step or check of the loop follows a check
\* that returned false.
C1_DriverLoopExit ==
  /\ <>(pc = "done")
  /\ [][pc = "loop_test" =>
          /\ Len(callLog) >= 2
          /\ IsCheck(callLog[Len(callLog) - 1])
          /\ pc' = "loop_update" <=>
               (callLog[Len(callLog) - 1] = "StateChanged=true"
                  /\ iterationCount < ITERATION_LIMIT)
          /\ pc' = "print_final" <=>
               (callLog[Len(callLog) - 1] = "StateChanged=false"
                  \/ iterationCount >= ITERATION_LIMIT)]_vars
  /\ [](\A k \in 1 .. Len(callLog) :
          callLog[k] = "StateChanged=false" =>
            \A m \in (k + 1) .. Len(callLog) :
              (callLog[m] = "UpdateTemps" \/ IsCheck(callLog[m])) =>
                \E e \in (k + 1) .. (m - 1) : callLog[e] = "ExportPlateToCSV")

\* the loop has gone round more than once and has been left after a check
\* that returned false
C1_Witness ==
  /\ pc = "print_final"
  /\ iterationCount > 2
  /\ callLog[Len(callLog) - 1] = "StateChanged=false"
  /\ Has("StateChanged=true")

\* C5: when Hotplate.csv cannot be opened ExportPlateToCSV returns non-zero
\* and writes nothing to the file, main goes to its return with a non-zero
\* status and never calls InitPlateFromTxt nor takes a further relaxation
\* step; when it opens, 0 is returned, the final plate is in the file and
\* main goes on to InitPlateFromTxt.
C5_ExportFailureIsFatal ==
  Has("ExportPlateToCSV") =>
    IF OpenFailed
      THEN /\ exportStatus /= 0
           /\ csvFile = << >>
           /\ pc \in {"export_test", "done"}
           /\ pc = "done" => exitStatus /= 0
           /\ ~Imported
           /\ callLog[Len(callLog)] = "ExportPlateToCSV"
      ELSE /\ exportStatus = 0
           /\ \E k \in 1 .. Len(stdout) :
                /\ stdout[k].text = "Printing final plate..."
                /\ csvFile = stdout[k].plate
           /\ pc \notin {"export_test", "import"} => Imported
           /\ pc = "done" => exitStatus = 0

\* main has returned after an export that could not open the file
C5_Witness ==
  /\ pc = "done"
  /\ OpenFailed
  /\ exitStatus = 1

\* C6: after a successful export main takes exactly DESIRED_ITERATIONS
\* relaxation steps, each followed by the copy of new into old, makes no
\* convergence check, prints and returns 0.
C6_FixedCountSteps ==
  /\ Imported =>
       /\ \A k \in 1 .. Len(SinceImport) : ~IsCheck(SinceImport[k])
       /\ pc = "done" =>
            /\ SinceImport = ThreeSteps \o <<"OutputPlate">>
            /\ i = 3
            /\ i = DESIRED_ITERATIONS
            /\ exitStatus = 0
  /\ (pc = "done" /\ exportStatus = 0) => Imported

\* main has returned 0 after three steps on a plate that was steady when they
\* began: the import failed and the converged plate was stepped
C6_Witness ==
  /\ pc = "done"
  /\ exitStatus = 0
  /\ hasReachedSteadyState
  /\ Has("InitPlateFromTxt=1")
  /\ Len(SinceImport) = 7

\* C7: when Inputplate.txt cannot be opened InitPlateFromTxt returns non-zero
\* and leaves the plate as it was (equal to newHeatDist, the plate the
\* steady-state run left); main still takes the three steps, prints the
\* plate and returns 0.
C7_ImportFailureNonFatal ==
  (Imported /\ ~inputTxt.exists) =>
     /\ Has("InitPlateFromTxt=1")
     /\ pc \in {"fixed_test", "fixed_update", "fixed_transfer", "print_result", "done"}
     /\ SinceImport = << >> => oldHeatDist = newHeatDist
     /\ pc = "done" =>
          /\ exitStatus = 0
          /\ SinceImport = ThreeSteps \o <<"OutputPlate">>
          /\ stdout[Len(stdout)].plate = OutputPlate(oldHeatDist)

\* main has returned 0 although Inputplate.txt could not be opened
C7_Witness ==
  /\ pc = "done"
  /\ exitStatus = 0
  /\ ~inputTxt.exists
  /\ \E k \in 1 .. Len(stdout) : stdout[k].text = "Could not open file numFile.txt."

\* C8: from the standard initial plate the steady-state loop is left with
\* hasReachedSteadyState set by a check that returned false, and with
\* iterationCount below ITERATION_LIMIT.
C8_ConvergesBeforeLimit ==
  /\ iterationCount < ITERATION_LIMIT
  /\ AfterLoop =>
       /\ hasReachedSteadyState
       /\ Has("StateChanged=false")

\* the loop has been left, converged
C8_Witness ==
  /\ pc = "export"
  /\ hasReachedSteadyState
  /\ iterationCount > 1
  /\ oldHeatDist[0][1] = INITIAL_TEMP
  /\ oldHeatDist[4][4] > 0

\* C10: after an import that read a whole plate, the border of oldHeatDist
\* holds the imported values through the three steps and in the plate printed
\* at the end.
C10_ImportedBorderKept ==
  (Imported /\ inputTxt.exists /\ Len(inputTxt.tokens) = PLATE_SIZE * PLATE_SIZE) =>
     \A r \in Idx, c \in Idx :
       IsBorder(r, c) =>
         /\ oldHeatDist[r][c] = ParseField(inputTxt.tokens[r * PLATE_SIZE + c + 1])
         /\ pc = "done" =>
              stdout[Len(stdout)].plate[r + 1][c + 1] = inputTxt.tokens[r * PLATE_SIZE + c + 1]

====
